---- MODULE Spec2Model ----
(***************************************************************************)
(* A model of rusty_hyrule_compendium's blocking client                    *)
(* (src/src/blocking/compendium.rs) and of the serde decoders derived for  *)
(* its domain types (src/src/domain).                                      *)
(*                                                                         *)
(* Text that the code takes apart (names, path segments, URL texts) is a   *)
(* sequence of tokens: one-character strings, and whole words for the      *)
(* fixed literals of the code ("entry", "master_mode", ...).  "/" is       *)
(* always a token of its own.  Text that the code only carries (an         *)
(* entry's name, description, image) is a TLA+ string.                     *)
(***************************************************************************)
EXTENDS Integers, Sequences, FiniteSets, TLC

VARIABLES client, calls, gets, last

vars == <<client, calls, gets, last>>

(***************************************************************************)
(* Bounds of the model.                                                    *)
(***************************************************************************)
MaxCalls == 2
MaxNameLen == 3
MaxList == 2

(***************************************************************************)
(* Result<T>                                                               *)
(***************************************************************************)
Ok(v) == [tag |-> "Ok", value |-> v]
Err(e) == [tag |-> "Err", err |-> e]
IsOk(r) == r.tag = "Ok"
IsErr(r) == r.tag = "Err"

InvalidBaseUrl(text) == [kind |-> "InvalidBaseUrl", input |-> text]
ErrorConstructingResourceUrl == [kind |-> "ErrorConstructingResourceUrl"]
RequestError == [kind |-> "RequestError"]
NoDataFound(path) == [kind |-> "NoDataFound", path |-> path]
ServerError == [kind |-> "ServerError"]
ResponseParsingError == [kind |-> "ResponseParsingError"]

(***************************************************************************)
(* Inputs: EntryIdentifier, GameMode, CompendiumCategory                   *)
(***************************************************************************)
Id(n) == [t |-> "Id", id |-> n]
Name(s) == [t |-> "Name", name |-> s]

GameMode == {"Standard", "MasterMode"}

CompendiumCategory == {"Treasure", "Creature", "Monster", "Material", "Equipment"}

(***************************************************************************)
(* reqwest::Url.  A parsed URL is its scheme and authority, its path as a  *)
(* token sequence, and whether it is a cannot-be-a-base URL (no authority, *)
(* an opaque path, as in mailto:x).                                        *)
(***************************************************************************)
SpecialSchemes == {"http:", "https:"}
OpaqueSchemes == {"mailto:"}
Authorities == {"//host", "//botw-compendium.herokuapp.com"}

Tail2(s) == SubSeq(s, 3, Len(s))

\* Url::parse: an absolute URL only.  A text without a scheme is refused
\* (RelativeUrlWithoutBase), a special scheme needs a host (EmptyHost), and
\* the empty path of a special scheme is "/".
UrlParse(text) ==
    IF Len(text) = 0 THEN Err("RelativeUrlWithoutBase")
    ELSE IF text[1] \in OpaqueSchemes
    THEN Ok([cannot_be_a_base |-> TRUE, origin |-> <<text[1]>>, path |-> Tail(text)])
    ELSE IF text[1] \notin SpecialSchemes THEN Err("RelativeUrlWithoutBase")
    ELSE IF Len(text) < 2 \/ text[2] \notin Authorities THEN Err("EmptyHost")
    ELSE Ok([cannot_be_a_base |-> FALSE,
             origin |-> <<text[1], text[2]>>,
             path |-> IF Len(text) = 2 THEN <<"/">> ELSE Tail2(text)])

\* The position of the last "/" of a path, 0 when it has none.
LastSlash(path) ==
    LET at == {i \in 1..Len(path) : path[i] = "/"}
    IN  IF at = {} THEN 0 ELSE CHOOSE i \in at : \A j \in at : j <= i

\* A path that starts with "/", cut into its segments, and back.
RECURSIVE Segments(_)
Segments(path) ==
    LET rest == Tail(path)
        k == IF LastSlash(rest) = 0 THEN Len(rest) + 1
             ELSE CHOOSE i \in 1..Len(rest) :
                      rest[i] = "/" /\ \A j \in 1..(i - 1) : rest[j] # "/"
    IN  <<SubSeq(rest, 1, k - 1)>>
        \o (IF k > Len(rest) THEN <<>> ELSE Segments(SubSeq(rest, k, Len(rest))))

RECURSIVE Unsplit(_)
Unsplit(segments) ==
    IF segments = <<>> THEN <<>>
    ELSE <<"/">> \o Head(segments) \o Unsplit(Tail(segments))

\* The parser's treatment of a ".." segment: it takes back the segment before
\* it, and leaves an empty last segment when it is the last one.
RECURSIVE Shorten(_, _)
Shorten(segments, out) ==
    IF segments = <<>> THEN out
    ELSE IF Head(segments) = <<"..">>
    THEN Shorten(Tail(segments),
                 (IF out = <<>> THEN out ELSE SubSeq(out, 1, Len(out) - 1))
                 \o (IF Len(segments) = 1 THEN << <<>> >> ELSE <<>>))
    ELSE Shorten(Tail(segments), Append(out, Head(segments)))

\* Url::join for a relative reference made of path tokens that holds no
\* query or fragment and does not start with "/": the reference replaces
\* what follows the last "/" of the base's path, and ".." segments are then
\* resolved.  A cannot-be-a-base URL takes no relative reference.
UrlJoin(url, rel) ==
    IF url.cannot_be_a_base THEN Err("RelativeUrlWithCannotBeABaseBase")
    ELSE Ok([url EXCEPT !.path =
                 Unsplit(Shorten(Segments(SubSeq(url.path, 1, LastSlash(url.path)) \o rel),
                                 <<>>))])

UrlPath(url) == url.path

(***************************************************************************)
(* Path resolution                                                         *)
(***************************************************************************)
DigitChar(d) == <<"0", "1", "2", "3", "4", "5", "6", "7", "8", "9">>[d + 1]

RECURSIVE Digits(_)
Digits(n) == IF n < 10 THEN <<DigitChar(n)>>
             ELSE Digits(n \div 10) \o <<DigitChar(n % 10)>>

\* i32::to_string
to_string(n) == IF n < 0 THEN <<"-">> \o Digits(-n) ELSE Digits(n)

\* str::replacen(' ', "_", 1) in its place: only the first space is replaced.
ReplaceOnlyFirstSpace(name) ==
    [i \in 1..Len(name) |->
        IF name[i] = " " /\ (\A j \in 1..(i - 1) : name[j] # " ") THEN "_" ELSE name[i]]

\* A replacement that also turns each underscore into a space.
replace_exchanging(name) ==
    [i \in 1..Len(name) |->
        IF name[i] = " " THEN "_" ELSE IF name[i] = "_" THEN " " ELSE name[i]]

\* str::replace(' ', "_")
replace(name) == [i \in 1..Len(name) |-> IF name[i] = " " THEN "_" ELSE name[i]]

entry_identifier(identifier) ==
    IF identifier.t = "Id" THEN to_string(identifier.id) ELSE replace(identifier.name)

\* create_path reporting a failed join as InvalidBaseUrl.
create_path_as_base_url_error(url, path_to_add) ==
    LET joined == UrlJoin(url, path_to_add)
    IN  IF IsErr(joined) THEN Err(InvalidBaseUrl(path_to_add)) ELSE Ok(joined.value)

create_path(url, path_to_add) ==
    LET joined == UrlJoin(url, path_to_add)
    IN  IF IsErr(joined) THEN Err(ErrorConstructingResourceUrl) ELSE Ok(joined.value)

\* The text handed to create_path: format!("master_mode/entry/{}", ..) or
\* format!("entry/{}", ..).
entry_path(identifier, mode) ==
    IF mode = "MasterMode"
    THEN <<"master_mode", "/", "entry", "/">> \o entry_identifier(identifier)
    ELSE <<"entry", "/">> \o entry_identifier(identifier)

create_path_for_entry(base, identifier, mode) ==
    create_path(base, entry_path(identifier, mode))

category_path_for_type(category) ==
    CASE category = "Creature" -> "creatures"
      [] category = "Monster" -> "monsters"
      [] category = "Material" -> "materials"
      [] category = "Treasure" -> "treasure"
      [] category = "Equipment" -> "equipment"

(***************************************************************************)
(* JSON values, as serde_json hands them to the derived decoders.          *)
(***************************************************************************)
JNull == [t |-> "null"]
JNum(n) == [t |-> "num", n |-> n]
JStr(s) == [t |-> "str", s |-> s]
JArr(a) == [t |-> "arr", a |-> a]
JObj(o) == [t |-> "obj", o |-> o]

NoFields == [k \in {} |-> JNull]

None == [some |-> FALSE]
Some(x) == [some |-> TRUE, v |-> x]

Failed(rs) == \E i \in DOMAIN rs : IsErr(rs[i])

\* T::deserialize for the types T of the crate's responses, T given by its
\* name.
RECURSIVE Decode(_, _)

\* A field without serde attributes: it must be there.
Required(o, k, T) == IF k \in DOMAIN o THEN Decode(T, o[k]) ELSE Err("missing field")

\* An Option<T> field: None when the key is missing or null.
Optional(o, k, T) ==
    IF k \notin DOMAIN o THEN Ok(None)
    ELSE IF o[k].t = "null" THEN Ok(None)
    ELSE LET r == Decode(T, o[k]) IN IF IsOk(r) THEN Ok(Some(r.value)) ELSE r

\* A #[serde(default = "..")] field: the default when the key is missing,
\* the decoded value otherwise.
Defaulted(o, k, T, default_value) ==
    IF k \in DOMAIN o THEN Decode(T, o[k]) ELSE Ok(default_value)

DecodeString(v) == IF v.t = "str" THEN Ok(v.s) ELSE Err("invalid type")
DecodeNumber(v) == IF v.t = "num" THEN Ok(v.n) ELSE Err("invalid type")

\* Vec<T>: a JSON array whose every element decodes.
DecodeVec(v, T) ==
    IF v.t # "arr" THEN Err("invalid type")
    ELSE LET rs == [i \in DOMAIN v.a |-> Decode(T, v.a[i])]
         IN  IF Failed(rs) THEN Err("invalid element")
             ELSE Ok([i \in DOMAIN v.a |-> rs[i].value])

\* CommonEntry, always reached through #[serde(flatten)]: the fields of the
\* enclosing object.
\* CommonEntry as it would decode under #[serde(default)].
DecodeCommonEntryWithDefaults(o) ==
    LET id == Defaulted(o, "id", "i32", 0)
        name == Defaulted(o, "name", "String", "")
        description == Defaulted(o, "description", "String", "")
        common_locations == Optional(o, "common_locations", "Vec<String>")
        image == Defaulted(o, "image", "String", "")
    IN  IF Failed(<<id, name, description, common_locations, image>>)
        THEN Err("common fields")
        ELSE Ok([id |-> id.value, name |-> name.value,
                 description |-> description.value,
                 common_locations |-> common_locations.value,
                 image |-> image.value])

DecodeCommonEntry(o) ==
    LET id == Required(o, "id", "i32")
        name == Required(o, "name", "String")
        description == Required(o, "description", "String")
        common_locations == Optional(o, "common_locations", "Vec<String>")
        image == Required(o, "image", "String")
    IN  IF Failed(<<id, name, description, common_locations, image>>)
        THEN Err("common fields")
        ELSE Ok([id |-> id.value, name |-> name.value,
                 description |-> description.value,
                 common_locations |-> common_locations.value,
                 image |-> image.value])

\* String::new() in place of a default literal.
empty_category_type == ""

default_monster_category_type == "monsters"
default_creature_category_type == "creatures"
default_material_category_type == "materials"
default_equipment_category_type == "equipment"
default_treasure_category_type == "treasure"

DecodeMonsterEntry(v) ==
    IF v.t # "obj" THEN Err("invalid type")
    ELSE LET common_fields == DecodeCommonEntry(v.o)
             drops == Optional(v.o, "drops", "Vec<String>")
             category_type == Defaulted(v.o, "category_type", "String",
                                        default_monster_category_type)
         IN  IF Failed(<<common_fields, drops, category_type>>) THEN Err("MonsterEntry")
             ELSE Ok([kind |-> "MonsterEntry",
                      common_fields |-> common_fields.value,
                      drops |-> drops.value,
                      category_type |-> category_type.value])

DecodeCreatureEntry(v) ==
    IF v.t # "obj" THEN Err("invalid type")
    ELSE LET common_fields == DecodeCommonEntry(v.o)
             drops == Optional(v.o, "drops", "Vec<String>")
             hearts_recovered == Optional(v.o, "hearts_recovered", "f32")
             cooking_effect == Optional(v.o, "cooking_effect", "String")
             category_type == Defaulted(v.o, "category_type", "String",
                                        default_creature_category_type)
         IN  IF Failed(<<common_fields, drops, hearts_recovered, cooking_effect,
                         category_type>>)
             THEN Err("CreatureEntry")
             ELSE Ok([kind |-> "CreatureEntry",
                      common_fields |-> common_fields.value,
                      drops |-> drops.value,
                      hearts_recovered |-> hearts_recovered.value,
                      cooking_effect |-> cooking_effect.value,
                      category_type |-> category_type.value])

DecodeMaterialEntry(v) ==
    IF v.t # "obj" THEN Err("invalid type")
    ELSE LET common_fields == DecodeCommonEntry(v.o)
             hearts_recovered == Optional(v.o, "hearts_recovered", "f32")
             category_type == Defaulted(v.o, "category_type", "String",
                                        default_material_category_type)
         IN  IF Failed(<<common_fields, hearts_recovered, category_type>>)
             THEN Err("MaterialEntry")
             ELSE Ok([kind |-> "MaterialEntry",
                      common_fields |-> common_fields.value,
                      hearts_recovered |-> hearts_recovered.value,
                      category_type |-> category_type.value])

DecodeEquipmentEntry(v) ==
    IF v.t # "obj" THEN Err("invalid type")
    ELSE LET common_fields == DecodeCommonEntry(v.o)
             attack == Optional(v.o, "attack", "i32")
             defense == Optional(v.o, "defense", "i32")
             category_type == Defaulted(v.o, "category_type", "String",
                                        default_equipment_category_type)
         IN  IF Failed(<<common_fields, attack, defense, category_type>>)
             THEN Err("EquipmentEntry")
             ELSE Ok([kind |-> "EquipmentEntry",
                      common_fields |-> common_fields.value,
                      attack |-> attack.value,
                      defense |-> defense.value,
                      category_type |-> category_type.value])

\* TreasureEntry refusing a payload that names another category.
DecodeTreasureEntry_checking_category(v) ==
    IF v.t # "obj" THEN Err("invalid type")
    ELSE IF "category" \in DOMAIN v.o /\ v.o["category"] # JStr("treasure")
    THEN Err("category")
    ELSE LET common_fields == DecodeCommonEntry(v.o)
             drops == Optional(v.o, "drops", "Vec<String>")
             category_type == Defaulted(v.o, "category_type", "String",
                                        default_treasure_category_type)
         IN  IF Failed(<<common_fields, drops, category_type>>) THEN Err("TreasureEntry")
             ELSE Ok([kind |-> "TreasureEntry",
                      common_fields |-> common_fields.value,
                      drops |-> drops.value,
                      category_type |-> category_type.value])

DecodeTreasureEntry(v) ==
    IF v.t # "obj" THEN Err("invalid type")
    ELSE LET common_fields == DecodeCommonEntry(v.o)
             drops == Optional(v.o, "drops", "Vec<String>")
             category_type == Defaulted(v.o, "category_type", "String",
                                        default_treasure_category_type)
         IN  IF Failed(<<common_fields, drops, category_type>>) THEN Err("TreasureEntry")
             ELSE Ok([kind |-> "TreasureEntry",
                      common_fields |-> common_fields.value,
                      drops |-> drops.value,
                      category_type |-> category_type.value])

\* The accessors of the five entry types.
id(e) == e.common_fields.id
name(e) == e.common_fields.name
category_type(e) == e.category_type

(***************************************************************************)
(* Response envelopes                                                      *)
(***************************************************************************)
Without(o, k) == [j \in DOMAIN o \ {k} |-> o[j]]

\* The newtype variant a discriminator names, decoded from the rest of the
\* object.
DecodeVariant(tag, content) ==
    CASE tag = "monsters" ->
           LET e == DecodeMonsterEntry(content)
           IN  IF IsOk(e) THEN Ok([variant |-> "Monster", entry |-> e.value]) ELSE e
      [] tag = "creatures" ->
           LET e == DecodeCreatureEntry(content)
           IN  IF IsOk(e) THEN Ok([variant |-> "Creature", entry |-> e.value]) ELSE e
      [] tag = "equipment" ->
           LET e == DecodeEquipmentEntry(content)
           IN  IF IsOk(e) THEN Ok([variant |-> "Equipment", entry |-> e.value]) ELSE e
      [] tag = "treasure" ->
           LET e == DecodeTreasureEntry(content)
           IN  IF IsOk(e) THEN Ok([variant |-> "Treasure", entry |-> e.value]) ELSE e
      [] tag = "materials" ->
           LET e == DecodeMaterialEntry(content)
           IN  IF IsOk(e) THEN Ok([variant |-> "Material", entry |-> e.value]) ELSE e
      [] OTHER -> Err("unknown variant")

\* EntryResponse with an untagged object taken for a monster.
DecodeEntryResponseMonsterFallback(v) ==
    IF v.t # "obj" THEN Err("invalid type")
    ELSE IF "category" \notin DOMAIN v.o THEN DecodeVariant("monsters", v)
    ELSE IF v.o["category"].t # "str" THEN Err("invalid type")
    ELSE DecodeVariant(v.o["category"].s, JObj(Without(v.o, "category")))

\* #[serde(tag = "category")]: the discriminator is read first, the variant
\* is decoded from the remaining fields.
DecodeEntryResponse(v) ==
    IF v.t # "obj" THEN Err("invalid type")
    ELSE IF "category" \notin DOMAIN v.o THEN Err("missing field")
    ELSE IF v.o["category"].t # "str" THEN Err("invalid type")
    ELSE DecodeVariant(v.o["category"].s, JObj(Without(v.o, "category")))

\* A derived struct without flattened fields is read from an object by field
\* name, or from an array of exactly its fields in declaration order.
StructFields(v, keys) ==
    IF v.t = "obj" THEN Ok(v.o)
    ELSE IF v.t = "arr" /\ Len(v.a) = Len(keys)
    THEN Ok([k \in {keys[i] : i \in DOMAIN keys} |->
                v.a[CHOOSE i \in DOMAIN keys : keys[i] = k]])
    ELSE Err("invalid type")

DecodeAllCreatureEntries(v) ==
    LET fields == StructFields(v, <<"food", "non_food">>)
    IN  IF IsErr(fields) THEN fields
        ELSE LET food == Required(fields.value, "food", "Vec<CreatureEntry>")
                 non_food == Required(fields.value, "non_food", "Vec<CreatureEntry>")
             IN  IF Failed(<<food, non_food>>) THEN Err("AllCreatureEntries")
                 ELSE Ok([food |-> food.value, non_food |-> non_food.value])

DecodeAllStandardEntries(v) ==
    LET fields == StructFields(v, <<"creatures", "equipment", "materials",
                                    "monsters", "treasure">>)
    IN  IF IsErr(fields) THEN fields
        ELSE LET creatures == Required(fields.value, "creatures", "AllCreatureEntries")
                 equipment == Required(fields.value, "equipment", "Vec<EquipmentEntry>")
                 materials == Required(fields.value, "materials", "Vec<MaterialEntry>")
                 monsters == Required(fields.value, "monsters", "Vec<MonsterEntry>")
                 treasure == Required(fields.value, "treasure", "Vec<TreasureEntry>")
             IN  IF Failed(<<creatures, equipment, materials, monsters, treasure>>)
                 THEN Err("AllStandardEntries")
                 ELSE Ok([creatures |-> creatures.value, equipment |-> equipment.value,
                          materials |-> materials.value, monsters |-> monsters.value,
                          treasure |-> treasure.value])

\* ApiResponse<T>
DecodeApiResponse(v, T) ==
    LET fields == StructFields(v, <<"data">>)
    IN  IF IsErr(fields) THEN fields ELSE Required(fields.value, "data", T)

Decode(T, v) ==
    CASE T = "String" -> DecodeString(v)
      [] T \in {"i32", "f32"} -> DecodeNumber(v)
      [] T = "Vec<String>" -> DecodeVec(v, "String")
      [] T = "MonsterEntry" -> DecodeMonsterEntry(v)
      [] T = "CreatureEntry" -> DecodeCreatureEntry(v)
      [] T = "MaterialEntry" -> DecodeMaterialEntry(v)
      [] T = "EquipmentEntry" -> DecodeEquipmentEntry(v)
      [] T = "TreasureEntry" -> DecodeTreasureEntry(v)
      [] T = "Vec<MonsterEntry>" -> DecodeVec(v, "MonsterEntry")
      [] T = "Vec<CreatureEntry>" -> DecodeVec(v, "CreatureEntry")
      [] T = "Vec<MaterialEntry>" -> DecodeVec(v, "MaterialEntry")
      [] T = "Vec<EquipmentEntry>" -> DecodeVec(v, "EquipmentEntry")
      [] T = "Vec<TreasureEntry>" -> DecodeVec(v, "TreasureEntry")
      [] T = "EntryResponse" -> DecodeEntryResponse(v)
      [] T = "AllCreatureEntries" -> DecodeAllCreatureEntries(v)
      [] T = "AllStandardEntries" -> DecodeAllStandardEntries(v)

(***************************************************************************)
(* The transport.  One send is one GET; the server's side of it is the     *)
(* reaction net: a transport failure, or a response with a status and a    *)
(* body.  A body is JSON text (given by the value it denotes), or bytes     *)
(* that are not JSON, or bytes whose reading fails before the end.  send    *)
(* follows redirects: the response is the last one received, and its URL    *)
(* is the one that answered, the requested one unless the server sent the  *)
(* request elsewhere.                                                      *)
(***************************************************************************)
TransportFailure == [t |-> "transport_failure"]
Response(status, body) ==
    [t |-> "response", status |-> status, body |-> body, location |-> None]
Redirected(status, body, location) ==
    [t |-> "response", status |-> status, body |-> body, location |-> Some(location)]

Json(v) == [t |-> "json", json |-> v]
Malformed == [t |-> "malformed"]
Unreadable == [t |-> "unreadable"]

\* Response::json::<ApiResponse<T>>() followed by .map(|r| r.data)
json(body, T) ==
    IF body.t # "json" THEN Err("expected value") ELSE DecodeApiResponse(body.json, T)

\* StatusCode::is_server_error, StatusCode::is_client_error
\* Status tests that know a single code of their range.
is_server_error_500_only(status) == status = 500

is_server_error(status) == 500 <= status /\ status < 600

is_client_error_404_only(status) == status = 404

is_client_error(status) == 400 <= status /\ status < 500

\* handle_response letting only the 2xx statuses through.
handle_response_success_only(response_data) ==
    IF is_server_error(response_data.status) THEN Err(ServerError)
    ELSE IF ~(200 <= response_data.status /\ response_data.status < 300)
    THEN Err(NoDataFound(UrlPath(response_data.url)))
    ELSE Ok(response_data)

handle_response(response_data) ==
    IF is_server_error(response_data.status) THEN Err(ServerError)
    ELSE IF is_client_error(response_data.status)
    THEN Err(NoDataFound(UrlPath(response_data.url)))
    ELSE Ok(response_data)

\* The steps of a call, in the order taken: "path", "get", "status", "decode".
Gets(trace) == Cardinality({i \in DOMAIN trace : trace[i] = "get"})

send(url, net) ==
    IF net.t = "transport_failure" THEN Err(RequestError)
    ELSE Ok([status |-> net.status,
             url |-> IF net.location.some THEN [url EXCEPT !.path = net.location.v]
                     ELSE url,
             body |-> net.body])

\* make_request sending a second time after a transport failure.
make_request_retrying(url, net) ==
    LET sent == send(url, net)
    IN  IF IsErr(sent) THEN [result |-> send(url, net), trace |-> <<"get", "get">>]
        ELSE [result |-> handle_response(sent.value), trace |-> <<"get", "status">>]

make_request(url, net) ==
    LET sent == send(url, net)
    IN  IF IsErr(sent) THEN [result |-> sent, trace |-> <<"get">>]
        ELSE [result |-> handle_response(sent.value), trace |-> <<"get", "status">>]

\* fetch_data_for_specified_type reading and decoding the body before the
\* status is classified.
fetch_data_for_specified_type_decoding_first(url, net, T) ==
    LET sent == send(url, net)
    IN  IF IsErr(sent) THEN [result |-> sent, trace |-> <<"get">>]
        ELSE LET data == json(sent.value.body, T)
                 classified == handle_response(sent.value)
             IN  [result |-> IF IsErr(classified) THEN classified
                             ELSE IF IsOk(data) THEN data ELSE Err(ResponseParsingError),
                  trace |-> <<"get", "decode", "status">>]

\* fetch_data_for_specified_type wrapping the error of json() as the error
\* of send().
fetch_data_for_specified_type_as_request_error(url, net, T) ==
    LET response == make_request(url, net)
    IN  IF IsErr(response.result) THEN response
        ELSE LET data == json(response.result.value.body, T)
             IN  [result |-> IF IsOk(data) THEN data ELSE Err(RequestError),
                  trace |-> response.trace \o <<"decode">>]

fetch_data_for_specified_type(url, net, T) ==
    LET response == make_request(url, net)
    IN  IF IsErr(response.result) THEN response
        ELSE LET data == json(response.result.value.body, T)
             IN  [result |-> IF IsOk(data) THEN data ELSE Err(ResponseParsingError),
                  trace |-> response.trace \o <<"decode">>]

WrapCategory(variant, fetched) ==
    IF IsErr(fetched.result) THEN fetched
    ELSE [fetched EXCEPT !.result = Ok([variant |-> variant, entries |-> fetched.result.value])]

\* The match with the Material and Treasure arms exchanged.
fetch_data_for_specific_category_swapped(url, entry_type, net) ==
    CASE entry_type = "Monster" ->
           WrapCategory("Monsters", fetch_data_for_specified_type(url, net, "Vec<MonsterEntry>"))
      [] entry_type = "Material" ->
           WrapCategory("Treasure", fetch_data_for_specified_type(url, net, "Vec<TreasureEntry>"))
      [] entry_type = "Treasure" ->
           WrapCategory("Materials", fetch_data_for_specified_type(url, net, "Vec<MaterialEntry>"))
      [] entry_type = "Creature" ->
           WrapCategory("Creatures", fetch_data_for_specified_type(url, net, "AllCreatureEntries"))
      [] entry_type = "Equipment" ->
           WrapCategory("Equipment", fetch_data_for_specified_type(url, net, "Vec<EquipmentEntry>"))

fetch_data_for_specific_category(url, entry_type, net) ==
    CASE entry_type = "Monster" ->
           WrapCategory("Monsters", fetch_data_for_specified_type(url, net, "Vec<MonsterEntry>"))
      [] entry_type = "Material" ->
           WrapCategory("Materials", fetch_data_for_specified_type(url, net, "Vec<MaterialEntry>"))
      [] entry_type = "Treasure" ->
           WrapCategory("Treasure", fetch_data_for_specified_type(url, net, "Vec<TreasureEntry>"))
      [] entry_type = "Creature" ->
           WrapCategory("Creatures", fetch_data_for_specified_type(url, net, "AllCreatureEntries"))
      [] entry_type = "Equipment" ->
           WrapCategory("Equipment", fetch_data_for_specified_type(url, net, "Vec<EquipmentEntry>"))

\* The outcome of a call: its result, the steps taken, the text handed to
\* create_path and the URL requested, if one was built.
Requested(path_to_add, url, fetched) ==
    [result |-> fetched.result, trace |-> <<"path">> \o fetched.trace,
     path_to_add |-> path_to_add, requested |-> Some(url)]

NotRequested(path_to_add, url_error) ==
    [result |-> url_error, trace |-> <<"path">>,
     path_to_add |-> path_to_add, requested |-> None]

fetch_data_for_specified_entry(base, identifier, game_mode, net, T) ==
    LET url == create_path_for_entry(base, identifier, game_mode)
    IN  IF IsErr(url) THEN NotRequested(entry_path(identifier, game_mode), url)
        ELSE Requested(entry_path(identifier, game_mode), url.value,
                       fetch_data_for_specified_type(url.value, net, T))

(***************************************************************************)
(* The client.  CompendiumClient::new and Default::default build it; it    *)
(* is the Result of its construction.                                      *)
(***************************************************************************)
new(url) ==
    LET parsed == UrlParse(url)
    IN  IF IsErr(parsed) THEN Err(InvalidBaseUrl(url))
        ELSE Ok([base_url |-> parsed.value])

default ==
    Ok([base_url |->
          UrlParse(<<"https:", "//botw-compendium.herokuapp.com",
                     "/", "api", "/", "v2", "/">>).value])

NoCall == [op |-> "none"]

\* A call that keeps the URL it requested as the client's base URL.
Call_rebasing(op, arg, net, out) ==
    /\ calls' = calls + 1
    /\ gets' = gets + Gets(out.trace)
    /\ last' = [op |-> op, arg |-> arg, net |-> net,
                path_to_add |-> out.path_to_add, requested |-> out.requested,
                result |-> out.result, trace |-> out.trace]
    /\ client' = IF out.requested.some THEN Ok([base_url |-> out.requested.v])
                 ELSE client

\* What a call leaves behind: one more call made, the GETs it issued, and
\* the record of the call.  The client is not written.
Call(op, arg, net, out) ==
    /\ calls' = calls + 1
    /\ gets' = gets + Gets(out.trace)
    /\ last' = [op |-> op, arg |-> arg, net |-> net,
                path_to_add |-> out.path_to_add, requested |-> out.requested,
                result |-> out.result, trace |-> out.trace]
    /\ UNCHANGED client

\* A scope S gives the inputs explored: S.cap calls at most, identifiers
\* from S.identifiers, reactions of the server from S.responses.
Ready(S) == IsOk(client) /\ calls < S.cap

base == client.value.base_url

entry(S) ==
    /\ Ready(S)
    /\ \E identifier \in S.identifiers, net \in S.responses :
          Call("entry", identifier, net,
               fetch_data_for_specified_entry(base, identifier, "Standard", net,
                                              "EntryResponse"))

monster(S) ==
    /\ Ready(S)
    /\ \E identifier \in S.identifiers, net \in S.responses :
          Call("monster", identifier, net,
               fetch_data_for_specified_entry(base, identifier, "Standard", net,
                                              "MonsterEntry"))

master_mode_monster(S) ==
    /\ Ready(S)
    /\ \E identifier \in S.identifiers, net \in S.responses :
          Call("master_mode_monster", identifier, net,
               fetch_data_for_specified_entry(base, identifier, "MasterMode", net,
                                              "MonsterEntry"))

treasure(S) ==
    /\ Ready(S)
    /\ \E identifier \in S.identifiers, net \in S.responses :
          Call("treasure", identifier, net,
               fetch_data_for_specified_entry(base, identifier, "Standard", net,
                                              "TreasureEntry"))

creature(S) ==
    /\ Ready(S)
    /\ \E identifier \in S.identifiers, net \in S.responses :
          Call("creature", identifier, net,
               fetch_data_for_specified_entry(base, identifier, "Standard", net,
                                              "CreatureEntry"))

equipment(S) ==
    /\ Ready(S)
    /\ \E identifier \in S.identifiers, net \in S.responses :
          Call("equipment", identifier, net,
               fetch_data_for_specified_entry(base, identifier, "Standard", net,
                                              "EquipmentEntry"))

material(S) ==
    /\ Ready(S)
    /\ \E identifier \in S.identifiers, net \in S.responses :
          Call("material", identifier, net,
               fetch_data_for_specified_entry(base, identifier, "Standard", net,
                                              "MaterialEntry"))

category(S) ==
    /\ Ready(S)
    /\ \E cat \in CompendiumCategory, net \in S.responses :
          LET path_to_add == <<"category", "/", category_path_for_type(cat)>>
              category_url == create_path(base, path_to_add)
          IN  Call("category", cat, net,
                   IF IsErr(category_url) THEN NotRequested(path_to_add, category_url)
                   ELSE Requested(path_to_add, category_url.value,
                                  fetch_data_for_specific_category(category_url.value,
                                                                   cat, net)))

all_entries(S) ==
    /\ Ready(S)
    /\ \E net \in S.responses :
          LET all_normal_mode_entries_url == create_path(base, <<"all">>)
          IN  Call("all_entries", "all", net,
                   IF IsErr(all_normal_mode_entries_url)
                   THEN NotRequested(<<"all">>, all_normal_mode_entries_url)
                   ELSE Requested(<<"all">>, all_normal_mode_entries_url.value,
                                  fetch_data_for_specified_type(
                                      all_normal_mode_entries_url.value, net,
                                      "AllStandardEntries")))

all_master_mode_entries(S) ==
    /\ Ready(S)
    /\ \E net \in S.responses :
          LET all_master_mode_entries_url ==
                  create_path(base, <<"master_mode", "/", "all">>)
          IN  Call("all_master_mode_entries", "all", net,
                   IF IsErr(all_master_mode_entries_url)
                   THEN NotRequested(<<"master_mode", "/", "all">>,
                                     all_master_mode_entries_url)
                   ELSE Requested(<<"master_mode", "/", "all">>,
                                  all_master_mode_entries_url.value,
                                  fetch_data_for_specified_type(
                                      all_master_mode_entries_url.value, net,
                                      "Vec<MonsterEntry>")))

(***************************************************************************)
(* Inputs                                                                  *)
(***************************************************************************)
\* Base URL texts given to CompendiumClient::new: with and without a path,
\* with and without a trailing "/", a cannot-be-a-base URL, and texts that
\* are no absolute URL.
UrlInputs ==
    { <<"http:", "//host">>,
      <<"http:", "//host", "/">>,
      <<"http:", "//host", "/", "api", "/", "v2">>,
      <<"http:", "//host", "/", "api", "/", "v2", "/">>,
      <<"mailto:", "x">>,
      <<"host", "/", "api">>,
      <<"http:">>,
      <<>> }

Clients == {new(u) : u \in UrlInputs} \cup {default}

NameChars == {"a", "B", " ", "_"}
Names(n) == UNION {[1..k -> NameChars] : k \in 0..n}
SampleIds == {0, 7, 10, 112, -45, 2147483647}

\* Names that hold "/" and "..".
TraversalNames == {<<"..">>, <<"..", "/", "master_mode", "/", "all">>}

PathIdentifiers ==
    {Id(n) : n \in SampleIds} \cup {Name(s) : s \in Names(MaxNameLen) \cup TraversalNames}
FewIdentifiers == {Id(112), Name(<<"a", " ", "B">>)}

\* Payloads: objects put together field by field, each field present in
\* several forms or missing.
CategoryOpts ==
    {NoFields, "category" :> JNum(1)} \cup
    {"category" :> JStr(c) :
        c \in {"monsters", "creatures", "equipment", "treasure", "materials", "weapons"}}
IdOpts == {NoFields, "id" :> JNum(112), "id" :> JStr("112")}
TextOpts ==
    {NoFields,
     ("name" :> JStr("silver moblin")) @@ ("description" :> JStr("The strongest")),
     ("name" :> JStr("silver moblin")) @@ ("description" :> JStr("The strongest"))
        @@ ("image" :> JStr("https://host/image"))}
CategoryTypeOpts ==
    {NoFields, "category_type" :> JStr(""), "category_type" :> JStr("custom"),
     "category_type" :> JNull}
OtherOpts ==
    {NoFields, "drops" :> JStr("moblin horn"),
     ("common_locations" :> JNull) @@ ("drops" :> JArr(<<JStr("moblin horn")>>))
        @@ ("hearts_recovered" :> JNum(0))}

Objects ==
    {JObj(a @@ b @@ c @@ d @@ e) :
        a \in CategoryOpts, b \in IdOpts, c \in TextOpts, d \in CategoryTypeOpts,
        e \in OtherOpts}

Entry(cat, n, nm) ==
    JObj(("category" :> JStr(cat)) @@ ("id" :> JNum(n)) @@ ("name" :> JStr(nm))
         @@ ("description" :> JStr("d")) @@ ("image" :> JStr("i")))

silver_moblin == Entry("monsters", 112, "silver moblin")
winterwing_butterfly == Entry("creatures", 67, "winterwing butterfly")

ListElements ==
    {silver_moblin, winterwing_butterfly,
     JObj(("id" :> JNum(9)) @@ ("name" :> JStr("no image")) @@ ("description" :> JStr("d"))),
     JObj(("id" :> JNum(201)) @@ ("name" :> JStr("opal")) @@ ("description" :> JStr("d"))
          @@ ("image" :> JStr("i")) @@ ("category_type" :> JStr("")))}

Lists(elements, n) == UNION {[1..k -> elements] : k \in 0..n}

ListPayloads == {JArr(l) : l \in Lists(ListElements, MaxList)}

CreatureLists == Lists({silver_moblin, winterwing_butterfly}, MaxList)

CreaturePayloads ==
    {JObj(("food" :> JArr(f)) @@ ("non_food" :> JArr(n))) :
        f \in CreatureLists, n \in CreatureLists}
    \cup {JObj("food" :> JArr(<<>>)),
          JArr(<<JArr(<<winterwing_butterfly>>), JArr(<<>>)>>)}

AllStandard(cs, tr) ==
    JObj(("creatures" :> cs) @@ ("equipment" :> JArr(<<>>))
         @@ ("materials" :> JArr(<<silver_moblin>>))
         @@ ("monsters" :> JArr(<<silver_moblin, winterwing_butterfly>>))
         @@ tr)

AllPayloads ==
    {AllStandard(c, t) :
        c \in {JObj(("food" :> JArr(<<winterwing_butterfly>>)) @@ ("non_food" :> JArr(<<>>))),
               JArr(<<>>)},
        t \in {NoFields, "treasure" :> JArr(<<silver_moblin>>)}}

Payloads == Objects \cup ListPayloads \cup CreaturePayloads \cup AllPayloads \cup {JNull}

\* {"data":{},"message":"no results"}
missing_data_response ==
    Json(JObj(("data" :> JObj(NoFields)) @@ ("message" :> JStr("no results"))))

Envelope(payload) == Json(JObj("data" :> payload))

Bodies ==
    {Envelope(p) : p \in Payloads}
    \cup {missing_data_response, Malformed, Json(JObj(NoFields)), Json(JNull),
          Json(JArr(<<silver_moblin>>)), Json(silver_moblin)}

FewBodies ==
    {Envelope(silver_moblin), Envelope(JArr(<<silver_moblin>>)),
     missing_data_response, Malformed, Unreadable}

Statuses == {100, 200, 204, 299, 304, 399, 400, 404, 499, 500, 503, 599, 600}

\* Three scopes: a sequence of calls on any client; one call of the default
\* client with every body; one call on any client with every identifier.
Session ==
    [cap |-> MaxCalls,
     identifiers |-> FewIdentifiers,
     responses |-> {TransportFailure, Response(404, missing_data_response),
                    Response(500, Envelope(silver_moblin))}
                   \cup {Response(200, b) : b \in FewBodies}]

Decoding ==
    [cap |-> 1,
     identifiers |-> {Id(112)},
     responses |-> {TransportFailure}
                   \cup {Response(s, b) : s \in {200, 404, 500}, b \in Bodies}
                   \cup {Response(s, b) : s \in Statuses, b \in FewBodies}]

Paths ==
    [cap |-> 1,
     identifiers |-> PathIdentifiers,
     responses |-> {TransportFailure, Response(200, Envelope(silver_moblin)),
                    Response(404, missing_data_response),
                    Redirected(404, missing_data_response, <<"/", "moved">>)}]

(***************************************************************************)
(* Specifications                                                          *)
(***************************************************************************)
Init ==
    /\ client \in Clients
    /\ calls = 0
    /\ gets = 0
    /\ last = NoCall

InitDefault ==
    /\ client = default
    /\ calls = 0
    /\ gets = 0
    /\ last = NoCall

Next ==
    \/ entry(Session)
    \/ monster(Session)
    \/ master_mode_monster(Session)
    \/ treasure(Session)
    \/ creature(Session)
    \/ equipment(Session)
    \/ material(Session)
    \/ category(Session)
    \/ all_entries(Session)
    \/ all_master_mode_entries(Session)

NextDecode ==
    \/ entry(Decoding)
    \/ monster(Decoding)
    \/ master_mode_monster(Decoding)
    \/ treasure(Decoding)
    \/ creature(Decoding)
    \/ equipment(Decoding)
    \/ material(Decoding)
    \/ category(Decoding)
    \/ all_entries(Decoding)
    \/ all_master_mode_entries(Decoding)

NextPath ==
    \/ entry(Paths)
    \/ monster(Paths)
    \/ master_mode_monster(Paths)
    \/ treasure(Paths)
    \/ creature(Paths)
    \/ equipment(Paths)
    \/ material(Paths)
    \/ category(Paths)
    \/ all_entries(Paths)
    \/ all_master_mode_entries(Paths)

Spec == Init /\ [][Next]_vars
SpecDecode == InitDefault /\ [][NextDecode]_vars
SpecPath == Init /\ [][NextPath]_vars

(***************************************************************************)
(* Properties                                                              *)
(***************************************************************************)
Range(f) == {f[i] : i \in DOMAIN f}

Called == last.op # "none"
Answered == Called /\ last.requested.some /\ last.net.t = "response"
Failure(kind) == IsErr(last.result) /\ last.result.err.kind = kind
Success2xx == Answered /\ last.net.status \in 200..299

\* The payload of a struct's field, the struct given as an object or as the
\* array of its fields.
PayloadField(v, keys, k) ==
    IF v.t = "obj" THEN v.o[k] ELSE v.a[CHOOSE i \in DOMAIN keys : keys[i] = k]

\* Whether the body received is an envelope holding a data field, and that
\* field.
HasData ==
    /\ last.net.body.t = "json"
    /\ \/ last.net.body.json.t = "obj" /\ "data" \in DOMAIN last.net.body.json.o
       \/ last.net.body.json.t = "arr" /\ Len(last.net.body.json.a) = 1
Data == PayloadField(last.net.body.json, <<"data">>, "data")

\* C1: whatever the operation and the body, a response with a 5xx status
\* makes the call return ServerError, and the body is not decoded.
C1_ServerErrorWhateverBody ==
    (Answered /\ last.net.status \in 500..599)
        => (Failure("ServerError") /\ "decode" \notin Range(last.trace))

C1_Witness ==
    /\ Answered
    /\ last.op = "monster"
    /\ last.net.status = 599
    /\ HasData
    /\ IsOk(Decode("MonsterEntry", Data))
    /\ Failure("ServerError")

\* C2: whatever the operation, the path and the body, a response with a 4xx
\* status makes the call return NoDataFound, never a decoded value.
C2_NoDataFoundWhateverBody ==
    (Answered /\ last.net.status \in 400..499)
        => (Failure("NoDataFound") /\ "decode" \notin Range(last.trace))

C2_Witness ==
    /\ Answered
    /\ last.op = "category"
    /\ last.net.status = 499
    /\ HasData
    /\ IsOk(Decode("Vec<MonsterEntry>", Data))
    /\ Failure("NoDataFound")

\* The discriminator values of EntryResponse and the variants they name.
VariantNamed(tag) ==
    CASE tag = "monsters" -> "Monster"
      [] tag = "creatures" -> "Creature"
      [] tag = "equipment" -> "Equipment"
      [] tag = "treasure" -> "Treasure"
      [] tag = "materials" -> "Material"

HasDiscriminator(v) ==
    /\ v.t = "obj"
    /\ "category" \in DOMAIN v.o
    /\ v.o["category"].t = "str"
    /\ v.o["category"].s \in {"monsters", "creatures", "equipment", "treasure", "materials"}

\* C3: entry(identifier) on a success status returns the variant that the
\* payload's category names, with the payload's id and name; with the
\* discriminator missing or of any other value decoding fails and nothing
\* is returned.
C3_EntryVariantByDiscriminator ==
    (Success2xx /\ last.op = "entry" /\ HasData) =>
        /\ (HasDiscriminator(Data) /\ IsOk(last.result)) =>
              /\ last.result.value.variant = VariantNamed(Data.o["category"].s)
              /\ id(last.result.value.entry) = Data.o["id"].n
              /\ name(last.result.value.entry) = Data.o["name"].s
        /\ ~HasDiscriminator(Data) => Failure("ResponseParsingError")

C3_Witness ==
    /\ Success2xx
    /\ last.op = "entry"
    /\ HasData
    /\ HasDiscriminator(Data)
    /\ Data.o["category"].s = "treasure"
    /\ IsOk(last.result)
    /\ last.result.value.variant = "Treasure"
    /\ id(last.result.value.entry) = 112

\* C4: a success status with an envelope whose data is the empty object
\* makes every operation fail with ResponseParsingError: no entry is made
\* up from default values.
C4_EmptyDataIsParsingError ==
    (Success2xx /\ HasData /\ Data.t = "obj" /\ DOMAIN Data.o = {})
        => Failure("ResponseParsingError")

C4_Witness ==
    /\ Success2xx
    /\ last.op = "monster"
    /\ last.net.body = missing_data_response
    /\ Failure("ResponseParsingError")

ZipList(entries, arr) == {<<entries[i], arr.a[i]>> : i \in DOMAIN entries}

ZipCreatures(cs, v) ==
    ZipList(cs.food, PayloadField(v, <<"food", "non_food">>, "food"))
    \cup ZipList(cs.non_food, PayloadField(v, <<"food", "non_food">>, "non_food"))

AllKeys == <<"creatures", "equipment", "materials", "monsters", "treasure">>

\* Every entry a successful call returned, with the payload object it was
\* decoded from.
Returned ==
    IF ~(Called /\ IsOk(last.result)) THEN {}
    ELSE LET value == last.result.value
         IN  CASE last.op = "entry" -> {<<value.entry, Data>>}
               [] last.op \in {"monster", "master_mode_monster", "treasure",
                               "creature", "equipment", "material"} -> {<<value, Data>>}
               [] last.op = "all_master_mode_entries" -> ZipList(value, Data)
               [] last.op = "category" ->
                    IF value.variant = "Creatures" THEN ZipCreatures(value.entries, Data)
                    ELSE ZipList(value.entries, Data)
               [] last.op = "all_entries" ->
                    ZipCreatures(value.creatures, PayloadField(Data, AllKeys, "creatures"))
                    \cup UNION {ZipList(value[k], PayloadField(Data, AllKeys, k)) :
                                   k \in {"equipment", "materials", "monsters", "treasure"}}

DefaultLiteral(kind) ==
    CASE kind = "MonsterEntry" -> "monsters"
      [] kind = "CreatureEntry" -> "creatures"
      [] kind = "MaterialEntry" -> "materials"
      [] kind = "EquipmentEntry" -> "equipment"
      [] kind = "TreasureEntry" -> "treasure"

\* C5, as claimed: every entry returned after a successful decode has a
\* non-empty category_type().
C5_CategoryTypeNeverEmpty ==
    \A p \in Returned : category_type(p[1]) # ""

\* C5, amended: category_type() of a returned entry is the payload's
\* category_type when the payload has that field and the kind's default
\* literal when it has not, so it is non-empty whenever the payload omits
\* the field or gives it a non-empty text.
C5_CategoryTypeFromPayloadOrDefault ==
    \A p \in Returned :
        /\ "category_type" \in DOMAIN p[2].o
              => category_type(p[1]) = p[2].o["category_type"].s
        /\ "category_type" \notin DOMAIN p[2].o
              => (category_type(p[1]) = DefaultLiteral(p[1].kind) /\ category_type(p[1]) # "")

C5_Witness ==
    /\ Success2xx
    /\ last.op = "equipment"
    /\ IsOk(last.result)
    /\ "category_type" \notin DOMAIN Data.o
    /\ category_type(last.result.value) = "equipment"

CategoryVariant(cat) ==
    CASE cat = "Monster" -> "Monsters"
      [] cat = "Material" -> "Materials"
      [] cat = "Treasure" -> "Treasure"
      [] cat = "Equipment" -> "Equipment"
      [] cat = "Creature" -> "Creatures"

SameIds(entries, arr) ==
    /\ Len(entries) = Len(arr.a)
    /\ \A i \in DOMAIN entries : id(entries[i]) = arr.a[i].o["id"].n

\* C6: a successful category(cat) returns the variant of cat, whatever
\* categories the payload names, with the payload's length and ids.
C6_CategoryVariantByRequest ==
    (Called /\ last.op = "category" /\ IsOk(last.result)) =>
        /\ last.result.value.variant = CategoryVariant(last.arg)
        /\ IF last.arg = "Creature"
           THEN /\ SameIds(last.result.value.entries.food,
                           PayloadField(Data, <<"food", "non_food">>, "food"))
                /\ SameIds(last.result.value.entries.non_food,
                           PayloadField(Data, <<"food", "non_food">>, "non_food"))
           ELSE SameIds(last.result.value.entries, Data)

C6_Witness ==
    /\ Called
    /\ last.op = "category"
    /\ last.arg = "Treasure"
    /\ IsOk(last.result)
    /\ last.result.value.variant = "Treasure"
    /\ Data = JArr(<<silver_moblin, winterwing_butterfly>>)
    /\ Len(last.result.value.entries) = 2

IdentifierOps ==
    {"entry", "monster", "master_mode_monster", "treasure", "creature",
     "equipment", "material"}

ModePrefix(op) ==
    IF op = "master_mode_monster" THEN <<"master_mode", "/", "entry", "/">>
    ELSE <<"entry", "/">>

\* The segment of an identifier lookup: what follows the mode's prefix in
\* the text handed to create_path.
Segment == SubSeq(last.path_to_add, Len(ModePrefix(last.op)) + 1, Len(last.path_to_add))

DigitValue(c) ==
    CASE c = "0" -> 0 [] c = "1" -> 1 [] c = "2" -> 2 [] c = "3" -> 3 [] c = "4" -> 4
      [] c = "5" -> 5 [] c = "6" -> 6 [] c = "7" -> 7 [] c = "8" -> 8 [] c = "9" -> 9

RECURSIVE Unsigned(_)
Unsigned(ds) ==
    IF Len(ds) = 1 THEN DigitValue(ds[1])
    ELSE 10 * Unsigned(SubSeq(ds, 1, Len(ds) - 1)) + DigitValue(ds[Len(ds)])

\* A text is the decimal form of n: an optional "-", then digits without a
\* needless leading zero, of value n.
IsDecimalOf(text, n) ==
    LET ds == IF n < 0 THEN Tail(text) ELSE text
    IN  /\ Len(ds) >= 1
        /\ (n < 0) => text[1] = "-"
        /\ \A i \in DOMAIN ds : ds[i] \in {"0", "1", "2", "3", "4", "5", "6", "7", "8", "9"}
        /\ (Len(ds) > 1) => ds[1] # "0"
        /\ Unsigned(ds) = (IF n < 0 THEN -n ELSE n)

\* C7: the segment of Id(n) is the decimal form of n; the segment of
\* Name(s) is s with each space replaced by an underscore and every other
\* character kept; the prefix is master_mode/entry/ in MasterMode and
\* entry/ otherwise.
C7_SegmentAndPrefix ==
    (Called /\ last.op \in IdentifierOps) =>
        /\ SubSeq(last.path_to_add, 1, Len(ModePrefix(last.op))) = ModePrefix(last.op)
        /\ last.arg.t = "Id" => IsDecimalOf(Segment, last.arg.id)
        /\ last.arg.t = "Name" =>
              /\ Len(Segment) = Len(last.arg.name)
              /\ \A i \in DOMAIN Segment :
                    Segment[i] = (IF last.arg.name[i] = " " THEN "_" ELSE last.arg.name[i])

C7_Witness ==
    /\ Called
    /\ last.op = "master_mode_monster"
    /\ last.arg.t = "Name"
    /\ last.arg.name = <<" ", "B", " ">>
    /\ last.path_to_add = <<"master_mode", "/", "entry", "/", "_", "B", "_">>

\* The text of the base URL's path followed by a relative path: a "/" is put
\* between them unless the base's path ends with one.
UnderBase(base_path, rel) ==
    IF Len(base_path) > 0 /\ base_path[Len(base_path)] = "/" THEN base_path \o rel
    ELSE base_path \o <<"/">> \o rel

\* C8: the GET of an identifier lookup goes to the base URL, its whole path
\* included, followed by entry/<segment>, or by master_mode/entry/<segment>
\* in master mode.
C8_RequestUnderWholeBase ==
    (Called /\ last.op \in IdentifierOps /\ last.requested.some) =>
        /\ last.requested.v.origin = base.origin
        /\ last.requested.v.path =
              UnderBase(base.path, ModePrefix(last.op) \o entry_identifier(last.arg))

\* C9, as claimed: the number of GETs issued equals the number of calls
\* made, whatever the outcome of each call.
C9_GetsEqualCalls == gets = calls

\* C9, amended: a call that builds its URL issues exactly one GET, whatever
\* happens next, and a call whose path construction fails issues none.
C9_OneGetPerBuiltUrl ==
    [][/\ calls' = calls + 1
       /\ gets' = gets + (IF IsErr(last'.result)
                             /\ last'.result.err.kind = "ErrorConstructingResourceUrl"
                          THEN 0 ELSE 1)]_vars

C9_Witness ==
    /\ calls = 2
    /\ gets = 2
    /\ Failure("RequestError")

\* The fields a value of each target type is made of.
CommonFieldNames == {"id", "name", "description", "common_locations", "image"}

IsEntry(e, kind) ==
    /\ e.kind = kind
    /\ DOMAIN e.common_fields = CommonFieldNames
    /\ "category_type" \in DOMAIN e

IsEntryList(l, kind) == \A i \in DOMAIN l : IsEntry(l[i], kind)

IsCreatures(cs) ==
    /\ DOMAIN cs = {"food", "non_food"}
    /\ IsEntryList(cs.food, "CreatureEntry")
    /\ IsEntryList(cs.non_food, "CreatureEntry")

VariantKind(variant) ==
    CASE variant \in {"Monster", "Monsters"} -> "MonsterEntry"
      [] variant \in {"Creature", "Creatures"} -> "CreatureEntry"
      [] variant \in {"Material", "Materials"} -> "MaterialEntry"
      [] variant = "Equipment" -> "EquipmentEntry"
      [] variant = "Treasure" -> "TreasureEntry"

IsTarget(op, value) ==
    CASE op = "entry" -> IsEntry(value.entry, VariantKind(value.variant))
      [] op \in {"monster", "master_mode_monster"} -> IsEntry(value, "MonsterEntry")
      [] op = "treasure" -> IsEntry(value, "TreasureEntry")
      [] op = "creature" -> IsEntry(value, "CreatureEntry")
      [] op = "equipment" -> IsEntry(value, "EquipmentEntry")
      [] op = "material" -> IsEntry(value, "MaterialEntry")
      [] op = "all_master_mode_entries" -> IsEntryList(value, "MonsterEntry")
      [] op = "category" ->
           IF value.variant = "Creatures" THEN IsCreatures(value.entries)
           ELSE IsEntryList(value.entries, VariantKind(value.variant))
      [] op = "all_entries" ->
           /\ IsCreatures(value.creatures)
           /\ IsEntryList(value.equipment, "EquipmentEntry")
           /\ IsEntryList(value.materials, "MaterialEntry")
           /\ IsEntryList(value.monsters, "MonsterEntry")
           /\ IsEntryList(value.treasure, "TreasureEntry")

\* C10: a call ends with a whole value of its target type and no error, or
\* with one of ErrorConstructingResourceUrl, RequestError, ServerError,
\* NoDataFound, ResponseParsingError and no value; never with
\* InvalidBaseUrl, which only CompendiumClient::new gives.
C10_OneOutcome ==
    /\ Called =>
          \/ /\ IsOk(last.result)
             /\ DOMAIN last.result = {"tag", "value"}
             /\ IsTarget(last.op, last.result.value)
          \/ /\ IsErr(last.result)
             /\ DOMAIN last.result = {"tag", "err"}
             /\ last.result.err.kind \in
                   {"ErrorConstructingResourceUrl", "RequestError", "ServerError",
                    "NoDataFound", "ResponseParsingError"}
    /\ IsErr(client) => (client.err.kind = "InvalidBaseUrl" /\ ~Called)

C10_Witness ==
    /\ Called
    /\ last.op = "category"
    /\ Failure("ErrorConstructingResourceUrl")
    /\ ~last.requested.some

\* C11: the path carried by NoDataFound is the path of the URL the call
\* built from the base URL and its resolved segment, and requested.
C11_NoDataFoundCarriesRequestedPath ==
    (Called /\ Failure("NoDataFound")) =>
        /\ last.requested.some
        /\ last.result.err.path = UrlPath(last.requested.v)
        /\ last.requested.v = create_path(base, last.path_to_add).value

\* The transport failed during the call: no response came, or the bytes of
\* a body the call went on to read stopped coming.
TransportFailed ==
    /\ Called
    /\ last.requested.some
    /\ \/ last.net.t = "transport_failure"
       \/ /\ last.net.t = "response"
          /\ last.net.status \notin 400..599
          /\ last.net.body.t = "unreadable"

\* C12, as claimed: a transport failure is reported as RequestError and
\* never as ResponseParsingError.
C12_TransportFailureIsRequestError ==
    TransportFailed => (Failure("RequestError") /\ ~Failure("ResponseParsingError"))

\* C12, amended: the error tells the phase that failed.  A failure of send,
\* before any status, is RequestError, after one GET and no other; every
\* failure of json() on a response that passed the status test is
\* ResponseParsingError, whether the bytes could not be interpreted or could
\* not be read to the end; RequestError is returned in no other case, and
\* ResponseParsingError in no other case.
C12_ErrorTellsPhase ==
    (Called /\ last.requested.some) =>
        /\ last.net.t = "transport_failure"
              => (Failure("RequestError") /\ last.trace = <<"path", "get">>)
        /\ Failure("RequestError") => last.net.t = "transport_failure"
        /\ (Answered /\ last.net.status \notin 400..599
               /\ last.net.body.t \in {"malformed", "unreadable"})
              => Failure("ResponseParsingError")
        /\ (IsErr(last.result) /\ "decode" \in Range(last.trace))
              => Failure("ResponseParsingError")
        /\ Failure("ResponseParsingError")
              => (last.net.t = "response" /\ "decode" \in Range(last.trace))

C12_Witness ==
    /\ Called
    /\ last.op = "monster"
    /\ last.net = Response(200, Unreadable)
    /\ Failure("ResponseParsingError")
    /\ gets = 1

MasterModeOps == {"master_mode_monster", "all_master_mode_entries"}

\* A path has a master_mode/ directory in it.
UnderMasterMode(path) ==
    \E i \in 2..(Len(path) - 1) :
        path[i - 1] = "/" /\ path[i] = "master_mode" /\ path[i + 1] = "/"

\* C13: a call requests a path under master_mode/ exactly when the
\* operation is master_mode_monster or all_master_mode_entries; the lookups
\* of entry, monster, treasure, creature, material and equipment are built
\* with the prefix entry/.
C13_MasterModeOnlyByMasterModeOps ==
    (Called /\ last.requested.some) =>
        /\ UnderMasterMode(UrlPath(last.requested.v)) <=> last.op \in MasterModeOps
        /\ last.op \in IdentifierOps \ MasterModeOps =>
              SubSeq(last.path_to_add, 1, 2) = <<"entry", "/">>

\* C14, as claimed: the body is decoded exactly when the status is 2xx;
\* every 4xx gives NoDataFound, every 5xx ServerError, and no call answered
\* with a status outside 2xx returns a value.
C14_DecodedExactlyWhen2xx ==
    Answered =>
        /\ "decode" \in Range(last.trace) <=> last.net.status \in 200..299
        /\ last.net.status \in 400..499 => Failure("NoDataFound")
        /\ last.net.status \in 500..599 => Failure("ServerError")
        /\ IsOk(last.result) => last.net.status \in 200..299

\* C14, amended: the body is decoded exactly when the status is neither 4xx
\* nor 5xx, so for every 2xx and also for 1xx, 3xx and 600 and above; every
\* 4xx gives NoDataFound, every 5xx ServerError, and no call answered with
\* a 4xx or 5xx status returns a value.
C14_DecodedUnlessErrorStatus ==
    Answered =>
        /\ "decode" \in Range(last.trace) <=> last.net.status \notin 400..599
        /\ last.net.status \in 200..299 => "decode" \in Range(last.trace)
        /\ last.net.status \in 400..499 => Failure("NoDataFound")
        /\ last.net.status \in 500..599 => Failure("ServerError")
        /\ IsOk(last.result) => last.net.status \notin 400..599

C14_Witness ==
    /\ Answered
    /\ last.op = "monster"
    /\ last.net.status = 304
    /\ IsOk(last.result)
    /\ id(last.result.value) = 112

\* C15: the steps of a call are taken in the order path, get, status,
\* decode, and the call stops at the first that fails: a path that cannot be
\* built ends the call with that error and no GET; a GET that fails ends it
\* before any status is classified; a 4xx or 5xx status ends it before the
\* body is read; any other status leads on to the decoding.
C15_StepsInOrderUntilFailure ==
    Called =>
        /\ IsErr(create_path(base, last.path_to_add)) =>
              /\ last.trace = <<"path">>
              /\ last.result = create_path(base, last.path_to_add)
              /\ ~last.requested.some
        /\ IsOk(create_path(base, last.path_to_add)) =>
              /\ last.requested = Some(create_path(base, last.path_to_add).value)
              /\ last.net.t = "transport_failure" => last.trace = <<"path", "get">>
              /\ (last.net.t = "response" /\ last.net.status \in 400..599)
                    => last.trace = <<"path", "get", "status">>
              /\ (last.net.t = "response" /\ last.net.status \notin 400..599)
                    => last.trace = <<"path", "get", "status", "decode">>
        /\ IsOk(last.result) => last.trace = <<"path", "get", "status", "decode">>

C15_Witness ==
    /\ calls = 2
    /\ gets = 2
    /\ last.op = "all_entries"
    /\ Answered
    /\ last.net.status = 500
    /\ last.trace = <<"path", "get", "status">>
    /\ Failure("ServerError")

ModeOf(op) == IF op = "master_mode_monster" THEN "MasterMode" ELSE "Standard"

\* C16: the segment a name was translated to holds no space, translating
\* it again gives the same segment, and a lookup by that segment as the name
\* builds the same text and the same URL as the lookup by the name.
C16_TranslationIdempotent ==
    (Called /\ last.op \in IdentifierOps /\ last.arg.t = "Name") =>
        /\ " " \notin Range(Segment)
        /\ replace(Segment) = Segment
        /\ entry_path(Name(Segment), ModeOf(last.op)) = last.path_to_add
        /\ create_path_for_entry(base, Name(Segment), ModeOf(last.op))
              = create_path_for_entry(base, last.arg, ModeOf(last.op))
        /\ last.requested.some =>
              create_path_for_entry(base, Name(Segment), ModeOf(last.op))
                  = Ok(last.requested.v)

C16_Witness ==
    /\ Called
    /\ last.op = "creature"
    /\ last.arg.t = "Name"
    /\ last.arg.name = <<" ", "_", " ">>
    /\ last.path_to_add = <<"entry", "/", "_", "_", "_">>
    /\ last.requested.some

\* The relative path of an operation, from its name and argument alone.
PathOf(op, arg) ==
    CASE op \in IdentifierOps -> entry_path(arg, ModeOf(op))
      [] op = "category" -> <<"category", "/", category_path_for_type(arg)>>
      [] op = "all_entries" -> <<"all">>
      [] op = "all_master_mode_entries" -> <<"master_mode", "/", "all">>

\* C17: no call changes the client, so its base URL stays the one fixed at
\* construction; and the URL a call requests is the join of that base URL
\* with the path of the call's own operation and argument, whatever calls
\* were made before.
C17_ClientUnchangedByCalls ==
    [][/\ client' = client
       /\ last'.path_to_add = PathOf(last'.op, last'.arg)
       /\ last'.requested.some =>
             Ok(last'.requested.v) = create_path(base, PathOf(last'.op, last'.arg))]_vars

C17_Witness ==
    /\ calls = 2
    /\ client = new(<<"http:", "//host", "/", "api", "/", "v2", "/">>)
    /\ last.op = "entry"
    /\ last.arg = Id(112)
    /\ last.requested.some
    /\ UrlPath(last.requested.v)
          = <<"/", "api", "/", "v2", "/", "entry", "/", "1", "1", "2">>

KindOps == {"monster", "master_mode_monster", "treasure", "creature", "material",
            "equipment"}

KindOf(op) ==
    CASE op \in {"monster", "master_mode_monster"} -> "MonsterEntry"
      [] op = "treasure" -> "TreasureEntry"
      [] op = "creature" -> "CreatureEntry"
      [] op = "material" -> "MaterialEntry"
      [] op = "equipment" -> "EquipmentEntry"

\* The payload is an object holding id, name, description and image, of
\* their types.
HoldsCommonRequired(v) ==
    /\ v.t = "obj"
    /\ {"id", "name", "description", "image"} \subseteq DOMAIN v.o
    /\ v.o["id"].t = "num"
    /\ \A k \in {"name", "description", "image"} : v.o[k].t = "str"

\* The optional fields of a kind and the JSON type of each.
OptionalFields(kind) ==
    {<<"common_locations", "arr">>}
    \cup CASE kind \in {"MonsterEntry", "TreasureEntry"} -> {<<"drops", "arr">>}
           [] kind = "CreatureEntry" ->
                {<<"drops", "arr">>, <<"hearts_recovered", "num">>,
                 <<"cooking_effect", "str">>}
           [] kind = "MaterialEntry" -> {<<"hearts_recovered", "num">>}
           [] kind = "EquipmentEntry" -> {<<"attack", "num">>, <<"defense", "num">>}

\* Every optional field of the kind that the payload holds is null or of its
\* type, a list being a list of texts; category_type, if held, is a text.
RestWellTyped(o, kind) ==
    /\ \A f \in OptionalFields(kind) :
          f[1] \in DOMAIN o =>
              \/ o[f[1]].t = "null"
              \/ /\ o[f[1]].t = f[2]
                 /\ f[2] = "arr" => \A i \in DOMAIN o[f[1]].a : o[f[1]].a[i].t = "str"
    /\ "category_type" \in DOMAIN o => o["category_type"].t = "str"

KindLookup == Success2xx /\ last.op \in KindOps /\ HasData /\ HoldsCommonRequired(Data)

\* C18, as claimed: a kind-specific lookup answered with a payload holding
\* the common required fields returns an entry of the requested kind,
\* whatever category the payload names, and its category_type() is the
\* default literal of the requested kind.
C18_RequestedKindDefaultLiteral ==
    KindLookup =>
        /\ IsOk(last.result)
        /\ last.result.value.kind = KindOf(last.op)
        /\ category_type(last.result.value) = DefaultLiteral(KindOf(last.op))

\* C18, amended: the payload's category plays no part: the call returns
\* what it would return for the payload without its category.  When the
\* payload's other fields are well typed the call returns an entry of the
\* requested kind with the payload's id, and its category_type() is the
\* payload's category_type when the payload has one and the default literal
\* of the requested kind otherwise.
C18_RequestedKindWhateverCategory ==
    KindLookup =>
        /\ last.result =
              (LET r == Decode(KindOf(last.op), JObj(Without(Data.o, "category")))
               IN  IF IsOk(r) THEN r ELSE Err(ResponseParsingError))
        /\ IsOk(last.result) <=> RestWellTyped(Data.o, KindOf(last.op))
        /\ IsOk(last.result) =>
              /\ last.result.value.kind = KindOf(last.op)
              /\ id(last.result.value) = Data.o["id"].n
              /\ category_type(last.result.value) =
                    (IF "category_type" \in DOMAIN Data.o THEN Data.o["category_type"].s
                     ELSE DefaultLiteral(KindOf(last.op)))

C18_Witness ==
    /\ KindLookup
    /\ last.op = "treasure"
    /\ "category" \in DOMAIN Data.o
    /\ Data.o["category"] = JStr("monsters")
    /\ "category_type" \notin DOMAIN Data.o
    /\ IsOk(last.result)
    /\ last.result.value.kind = "TreasureEntry"
    /\ category_type(last.result.value) = "treasure"

====
